---- MODULE Spec2Model ----
(***************************************************************************)
(* Apollo Contact Hunter (src/app.py): the title scorer, the name          *)
(* resolver, the candidate selector with its reveal loop, and the          *)
(* per-domain processing loop of main.                                     *)
(*                                                                         *)
(* Python strings that the code inspects character by character (titles,   *)
(* names, domains, emails) are sequences of one-character strings.  The    *)
(* Python value None is the value None below.  Status and error strings,   *)
(* which the code only builds and compares, are TLA+ strings.              *)
(***************************************************************************)
EXTENDS Integers, Sequences, FiniteSets, TLC

VARIABLES
    pc,                      \* which step of the current specification comes next
    person, resolved,        \* name resolver: the input dict, the triples returned so far
    selected_roles_ordered,  \* title scorer / fetch_contacts: the role priority list
    title, score,            \* title scorer: the title scored last and its score
    args, call,              \* fetch_contacts: the arguments and the outcome of the last call
    ui,                      \* main: the widget values (num_contacts, skip_n, ...)
    raw_lines, i, processed_rows   \* main: the loop over the domain lines

vars == <<pc, person, resolved, selected_roles_ordered, title, score, args, call,
          ui, raw_lines, i, processed_rows>>

\* ------------------------------------------------------------------ bounds
\* Longest name field drawn for the name resolver.
MaxNameLen == 3
\* Most tokens concatenated into a title drawn for the title scorer.
MaxTitleTokens == 3
\* Most people in a search response.
MaxPeople == 3
\* Most lines typed into the domains text area.
MaxLines == 2

\* ------------------------------------------------------------ Python values
\* Python's None; no string of characters equals it.
None == <<"<None>">>

\* Truthiness of an optional string: None and "" are falsy.
Truthy(s) == s # None /\ s # <<>>

\* x or y
Or(x, y) == IF Truthy(x) THEN x ELSE y

Whitespace == {" ", "\t", "\n"}

Digits == {"0", "1", "2", "3", "4", "5", "6", "7", "8", "9"}

LowerLetters ==
    {"a", "b", "c", "d", "e", "f", "g", "h", "i", "j", "k", "l", "m",
     "n", "o", "p", "q", "r", "s", "t", "u", "v", "w", "x", "y", "z"}

UpperLetters ==
    {"A", "B", "C", "D", "E", "F", "G", "H", "I", "J", "K", "L", "M",
     "N", "O", "P", "Q", "R", "S", "T", "U", "V", "W", "X", "Y", "Z"}

\* The characters the regex class \w matches.
WordChars == LowerLetters \cup UpperLetters \cup Digits \cup {"_"}

LowerChar(c) ==
    CASE c = "A" -> "a"
          [] c = "B" -> "b"
          [] c = "C" -> "c"
          [] c = "D" -> "d"
          [] c = "E" -> "e"
          [] c = "F" -> "f"
          [] c = "G" -> "g"
          [] c = "H" -> "h"
          [] c = "I" -> "i"
          [] c = "J" -> "j"
          [] c = "K" -> "k"
          [] c = "L" -> "l"
          [] c = "M" -> "m"
          [] c = "N" -> "n"
          [] c = "O" -> "o"
          [] c = "P" -> "p"
          [] c = "Q" -> "q"
          [] c = "R" -> "r"
          [] c = "S" -> "s"
          [] c = "T" -> "t"
          [] c = "U" -> "u"
          [] c = "V" -> "v"
          [] c = "W" -> "w"
          [] c = "X" -> "x"
          [] c = "Y" -> "y"
          [] c = "Z" -> "z"
          [] OTHER -> c

\* str.lower()
lower(s) == [k \in 1..Len(s) |-> LowerChar(s[k])]

\* str.lstrip()
RECURSIVE lstrip(_)
lstrip(s) ==
    IF s # <<>> /\ Head(s) \in Whitespace THEN lstrip(Tail(s)) ELSE s

\* str.rstrip()
RECURSIVE rstrip(_)
rstrip(s) ==
    IF s # <<>> /\ s[Len(s)] \in Whitespace
    THEN rstrip(SubSeq(s, 1, Len(s) - 1))
    ELSE s

\* str.strip()
strip(s) == rstrip(lstrip(s))

\* str.split() with no separator: the maximal runs of non-whitespace.
\* SplitFrom carries the words found so far and the word being read.
RECURSIVE SplitFrom(_, _, _)
SplitFrom(s, words, cur) ==
    IF s = <<>>
    THEN IF cur = <<>> THEN words ELSE Append(words, cur)
    ELSE IF Head(s) \in Whitespace
         THEN SplitFrom(Tail(s), IF cur = <<>> THEN words ELSE Append(words, cur), <<>>)
         ELSE SplitFrom(Tail(s), words, Append(cur, Head(s)))

split(s) == SplitFrom(s, <<>>, <<>>)

\* " ".join(parts)
RECURSIVE join(_)
join(parts) ==
    IF parts = <<>> THEN <<>>
    ELSE IF Len(parts) = 1 THEN parts[1]
    ELSE parts[1] \o <<" ">> \o join(Tail(parts))

\* s[k:] starts with prefix
StartsWithAt(s, k, prefix) ==
    /\ k + Len(prefix) - 1 <= Len(s)
    /\ \A j \in 1..Len(prefix) : s[k + j - 1] = prefix[j]

\* p in t
Contains(t, p) == \E k \in 1..(Len(t) + 1) : StartsWithAt(t, k, p)

\* --------------------------------------------------------- role taxonomy
ROLE_DEFINITIONS ==
       "Owner" :> <<
        <<"o","w","n","e","r">>,  \* owner
        <<"c","o","-","o","w","n","e","r">>,  \* co-owner
        <<"p","r","o","p","r","i","e","t","o","r">>,  \* proprietor
        <<"s","o","l","e"," ","p","r","o","p","r","i","e","t","o","r">>   \* sole proprietor
       >>
    @@ "Founder" :> <<
        <<"f","o","u","n","d","e","r">>,  \* founder
        <<"c","o","-","f","o","u","n","d","e","r">>,  \* co-founder
        <<"f","o","u","n","d","i","n","g"," ","p","a","r","t","n","e","r">>   \* founding partner
       >>
    @@ "CEO" :> <<
        <<"c","e","o">>,  \* ceo
        <<"c",".","e",".","o",".">>,  \* c.e.o.
        <<"c","h","i","e","f"," ","e","x","e","c","u","t","i","v","e"," ","o","f","f","i","c","e","r">>,  \* chief executive officer
        <<"c","h","i","e","f"," ","e","x","e","c","u","t","i","v","e">>   \* chief executive
       >>
    @@ "COO" :> <<
        <<"c","o","o">>,  \* coo
        <<"c",".","o",".","o",".">>,  \* c.o.o.
        <<"c","h","i","e","f"," ","o","p","e","r","a","t","i","n","g"," ","o","f","f","i","c","e","r">>,  \* chief operating officer
        <<"v","p"," ","o","f"," ","o","p","e","r","a","t","i","o","n","s">>,  \* vp of operations
        <<"h","e","a","d"," ","o","f"," ","o","p","e","r","a","t","i","o","n","s">>   \* head of operations
       >>
    @@ "CFO" :> <<
        <<"c","f","o">>,  \* cfo
        <<"c",".","f",".","o",".">>,  \* c.f.o.
        <<"c","h","i","e","f"," ","f","i","n","a","n","c","i","a","l"," ","o","f","f","i","c","e","r">>,  \* chief financial officer
        <<"v","p"," ","o","f"," ","f","i","n","a","n","c","e">>,  \* vp of finance
        <<"h","e","a","d"," ","o","f"," ","f","i","n","a","n","c","e">>,  \* head of finance
        <<"f","i","n","a","n","c","e"," ","d","i","r","e","c","t","o","r">>   \* finance director
       >>
    @@ "CMO" :> <<
        <<"c","m","o">>,  \* cmo
        <<"c",".","m",".","o",".">>,  \* c.m.o.
        <<"c","h","i","e","f"," ","m","a","r","k","e","t","i","n","g"," ","o","f","f","i","c","e","r">>,  \* chief marketing officer
        <<"v","p"," ","o","f"," ","m","a","r","k","e","t","i","n","g">>,  \* vp of marketing
        <<"h","e","a","d"," ","o","f"," ","m","a","r","k","e","t","i","n","g">>   \* head of marketing
       >>
    @@ "CIO/CTO" :> <<
        <<"c","i","o">>,  \* cio
        <<"c",".","i",".","o",".">>,  \* c.i.o.
        <<"c","t","o">>,  \* cto
        <<"c",".","t",".","o",".">>,  \* c.t.o.
        <<"c","h","i","e","f"," ","i","n","v","e","s","t","m","e","n","t"," ","o","f","f","i","c","e","r">>,  \* chief investment officer
        <<"c","h","i","e","f"," ","t","e","c","h","n","o","l","o","g","y"," ","o","f","f","i","c","e","r">>,  \* chief technology officer
        <<"c","h","i","e","f"," ","i","n","f","o","r","m","a","t","i","o","n"," ","o","f","f","i","c","e","r">>   \* chief information officer
       >>
    @@ "President" :> <<
        <<"p","r","e","s","i","d","e","n","t">>,  \* president
        <<"e","x","e","c","u","t","i","v","e"," ","d","i","r","e","c","t","o","r">>   \* executive director
       >>
    @@ "Managing Director" :> <<
        <<"m","a","n","a","g","i","n","g"," ","d","i","r","e","c","t","o","r">>,  \* managing director
        <<"m","d">>,  \* md
        <<"m",".","d",".">>   \* m.d.
       >>
    @@ "Managing Partner" :> <<
        <<"m","a","n","a","g","i","n","g"," ","p","a","r","t","n","e","r">>   \* managing partner
       >>
    @@ "Partner" :> <<
        <<"p","a","r","t","n","e","r">>,  \* partner
        <<"g","e","n","e","r","a","l"," ","p","a","r","t","n","e","r">>   \* general partner
       >>
    @@ "Vice President" :> <<
        <<"v","i","c","e"," ","p","r","e","s","i","d","e","n","t">>,  \* vice president
        <<"v","p">>,  \* vp
        <<"v",".","p",".">>   \* v.p.
       >>
    @@ "Principal" :> <<
        <<"p","r","i","n","c","i","p","a","l">>   \* principal
       >>
    @@ "Head" :> <<
        <<"h","e","a","d"," ","o","f">>   \* head of
       >>
    @@ "Director" :> <<
        <<"d","i","r","e","c","t","o","r">>   \* director
       >>

\* The labels offered by the multiselect: list(ROLE_DEFINITIONS.keys()).
RoleLabels == DOMAIN ROLE_DEFINITIONS

\* ------------------------------------------------------------ title scorer
\* The sentinel score of a title that matches no selected role.
Unranked == 999

\* Keywords of at most this many characters must match as whole words.
ShortKeywordLen == 4

\* Whether position k of t (1-based) holds a \w character; off either end it does not.
IsWordAt(t, k) == k \in 1..Len(t) /\ t[k] \in WordChars

\* The regex assertion \b just before position k of t: exactly one of the
\* characters on its two sides is a \w character.
WordBoundaryAt(t, k) == IsWordAt(t, k - 1) # IsWordAt(t, k)

\* re.search(r'\b' + re.escape(p) + r'\b', t)
SearchWholeWord(p, t) ==
    \E k \in 1..(Len(t) + 1) :
        /\ WordBoundaryAt(t, k)
        /\ StartsWithAt(t, k, p)
        /\ WordBoundaryAt(t, k + Len(p))

\* The test of one keyword against the lower-cased title t.
KeywordMatches(pattern, t) ==
    LET p == lower(pattern)
    IN  IF Len(p) <= ShortKeywordLen THEN SearchWholeWord(p, t) ELSE Contains(t, p)

\* The inner loop over the keywords of one role: some keyword matches.
AnyKeywordMatches(keywords, t) ==
    \E k \in 1..Len(keywords) : KeywordMatches(keywords[k], t)

RoleMatches(role_label, t) == AnyKeywordMatches(ROLE_DEFINITIONS[role_label], t)

\* The outer loop from position n (1-based) on: the index of the first role
\* that matches, Unranked when the list is exhausted.
RECURSIVE ScanRoles(_, _, _)
ScanRoles(roles, n, t) ==
    IF n > Len(roles) THEN Unranked
    ELSE IF RoleMatches(roles[n], t) THEN n - 1
    ELSE ScanRoles(roles, n + 1, t)

\* Mutant of get_contact_score: the loop does not return at the first match,
\* so the last matching role decides.
RECURSIVE ScanRolesLast(_, _, _, _)
ScanRolesLast(roles, n, t, found) ==
    IF n > Len(roles) THEN found
    ELSE ScanRolesLast(roles, n + 1, t, IF RoleMatches(roles[n], t) THEN n - 1 ELSE found)

get_contact_score_last(title_, roles) ==
    IF ~Truthy(title_) THEN Unranked ELSE ScanRolesLast(roles, 1, lower(title_), Unranked)

get_contact_score(title_, roles) ==
    IF ~Truthy(title_) THEN Unranked ELSE ScanRoles(roles, 1, lower(title_))

\* ----------------------------------------------------------- name resolver
\* Step 2: an absent or empty field becomes "", any other is stripped.
Normalize(s) == IF Truthy(s) THEN strip(s) ELSE <<>>

\* Step 4: the triple, with the full name rebuilt from its components.
Rebuilt(first, last) == <<first, last, strip(first \o <<" ">> \o last)>>

\* Step 3, once the source string is split: the last word is the last name,
\* and the rest (or the only word) the first name if there was none.
Harvest(first, parts) ==
    IF Len(parts) > 1
    THEN Rebuilt(IF first = <<>> THEN join(SubSeq(parts, 1, Len(parts) - 1)) ELSE first,
                 parts[Len(parts)])
    ELSE IF Len(parts) = 1
    THEN Rebuilt(IF first = <<>> THEN parts[1] ELSE first, <<>>)
    ELSE Rebuilt(first, <<>>)

\* Steps 3 and 4 on the normalized fields.
Reconstruct(first, last, raw_full_source) ==
    IF last = <<>> /\ raw_full_source # <<>>
    THEN Harvest(first, split(raw_full_source))
    ELSE Rebuilt(first, last)

parse_contact_name(person_dict) ==
    Reconstruct(Normalize(person_dict.first_name),
                Normalize(person_dict.last_name),
                Normalize(Or(person_dict.name, person_dict.label)))

\* ------------------------------------------------------------ input spaces
\* All sequences over S of length at most n.
BoundedSeq(S, n) == UNION {[1..k -> S] : k \in 0..n}

\* The sequences of BoundedSeq(S, n) with no repeated element.
DistinctSeq(S, n) ==
    {s \in BoundedSeq(S, n) : \A a, b \in 1..Len(s) : a # b => s[a] # s[b]}

RECURSIVE Concat(_)
Concat(ss) == IF ss = <<>> THEN <<>> ELSE Head(ss) \o Concat(Tail(ss))

\* Name fields: absent, or any string of letters and blanks up to MaxNameLen.
NameFields == {None} \cup BoundedSeq({"a", " "}, MaxNameLen)

PersonInputs ==
    [first_name : NameFields, last_name : NameFields, name : NameFields,
     label : {None, <<"b">>}]

\* Titles: absent, or up to MaxTitleTokens of these pieces run together.
TitleTokens ==
    { <<"m","d">>, <<"M",".","D",".">>, <<"V","P">>, <<"v",".","p",".">>,
      <<"a">>, <<" ">>, <<"_">>,
      <<"d","i","r","e","c","t","o","r">>,
      <<"M","a","n","a","g","i","n","g"," ">> }

Titles == {None} \cup {Concat(ts) : ts \in BoundedSeq(TitleTokens, MaxTitleTokens)}

\* Role lists handed to the scorer: every duplicate-free ordering of these labels.
ScoredLabels == {"Managing Director", "Vice President", "Director"}

ScoredRoleLists == DistinctSeq(ScoredLabels, Cardinality(ScoredLabels))

Idle == [idle |-> TRUE]

\* ------------------------------------------- specification: name resolver
InitName ==
    /\ pc = "resolve"
    /\ person \in PersonInputs
    /\ resolved = <<>>
    /\ selected_roles_ordered = <<>> /\ title = None /\ score = Unranked
    /\ args = Idle /\ call = Idle /\ ui = Idle
    /\ raw_lines = <<>> /\ i = 0 /\ processed_rows = <<>>

\* parse_contact_name on the person record.
Resolve ==
    /\ pc = "resolve"
    /\ resolved' = <<parse_contact_name(person)>>
    /\ pc' = "again"
    /\ UNCHANGED <<person, selected_roles_ordered, title, score, args, call, ui,
                   raw_lines, i, processed_rows>>

\* parse_contact_name on its own output: first_name, last_name and name are
\* the triple just returned.
ResolveAgain ==
    /\ pc = "again"
    /\ LET t == resolved[1]
       IN  resolved' = Append(resolved,
               parse_contact_name([first_name |-> t[1], last_name |-> t[2],
                                   name |-> t[3], label |-> None]))
    /\ pc' = "resolved"
    /\ UNCHANGED <<person, selected_roles_ordered, title, score, args, call, ui,
                   raw_lines, i, processed_rows>>

NextName == Resolve \/ ResolveAgain

SpecName == InitName /\ [][NextName]_vars

\* -------------------------------------------- specification: title scorer
InitScore ==
    /\ pc = "score"
    /\ selected_roles_ordered \in ScoredRoleLists
    /\ title = None /\ score = Unranked
    /\ person = Idle /\ resolved = <<>>
    /\ args = Idle /\ call = Idle /\ ui = Idle
    /\ raw_lines = <<>> /\ i = 0 /\ processed_rows = <<>>

\* get_contact_score on some title.
ScoreTitle ==
    /\ pc = "score"
    /\ \E t \in Titles :
        /\ title' = t
        /\ score' = get_contact_score(t, selected_roles_ordered)
    /\ pc' = "scored"
    /\ UNCHANGED <<person, resolved, selected_roles_ordered, args, call, ui,
                   raw_lines, i, processed_rows>>

NextScore == ScoreTitle

SpecScore == InitScore /\ [][NextScore]_vars

\* ----------------------------------------------------------- fetch_contacts
\* The placeholder of an unknown email.
NA == <<"N","/","A">>

\* error = None
NoError == "None"

\* Most contacts per domain and largest skip offered to fetch_contacts.
MaxContacts == 2
MaxSkip == 3

\* The candidate dict of person p, whose name resolves to the triple n and
\* whose title scores sc.
CandidateDict(p, n, sc) ==
    [id |-> p.id, Name |-> n[3], First |-> n[1], Last |-> n[2],
     Title |-> p.title, Email |-> Or(p.email, NA), Score |-> sc]

Candidate(p, roles) ==
    CandidateDict(p, parse_contact_name(p), get_contact_score(p.title, roles))

\* Mutant of Ranked: the test on the score lets the sentinel through.
RankedOrSentinel(cand) == cand.Score <= Unranked

\* if score < 999
Ranked(cand) == cand.Score < Unranked

\* cand in front of rest when its title is ranked.
KeepRanked(cand, rest) == IF Ranked(cand) THEN <<cand>> \o rest ELSE rest

\* The first loop: the candidates of the people with a ranked title, in
\* the order of the response.
RECURSIVE BuildCandidates(_, _)
BuildCandidates(people, roles) ==
    IF people = <<>> THEN <<>>
    ELSE KeepRanked(Candidate(Head(people), roles), BuildCandidates(Tail(people), roles))

\* cand placed after the first n candidates of sorted.
InsertAfter(sorted, n, cand) ==
    SubSeq(sorted, 1, n) \o <<cand>> \o SubSeq(sorted, n + 1, Len(sorted))

\* Mutant of InsertByScore: a candidate goes before those of equal score.
InsertBeforeEqual(sorted, cand) ==
    InsertAfter(sorted, Cardinality({k \in 1..Len(sorted) : sorted[k].Score < cand.Score}), cand)

\* One step of the stable sort: cand goes after every candidate already
\* placed whose score is not greater.
InsertByScore(sorted, cand) ==
    InsertAfter(sorted, Cardinality({k \in 1..Len(sorted) : sorted[k].Score <= cand.Score}), cand)

\* candidates.sort(key=lambda x: x['Score']); list.sort is stable.
RECURSIVE SortByScore(_)
SortByScore(cands) ==
    IF cands = <<>> THEN <<>>
    ELSE InsertByScore(SortByScore(SubSeq(cands, 1, Len(cands) - 1)), cands[Len(cands)])

\* s[from:to] for 0 <= from <= to.
Slice(s, from, to) == SubSeq(s, from + 1, IF to < Len(s) THEN to ELSE Len(s))

\* if should_reveal and cand['Email'] == "N/A"
NeedsReveal(cand, should_reveal) == should_reveal /\ cand.Email = NA

\* Mutant of BackFill: the name is back-filled whenever the reveal data has
\* a last name, whatever the candidate already has.
BackFillAnyName(cand, revealed_email, n) ==
    IF n[2] # <<>>
    THEN [cand EXCEPT !.Email = Or(revealed_email, @),
                      !.First = n[1], !.Last = n[2], !.Name = n[3]]
    ELSE [cand EXCEPT !.Email = Or(revealed_email, @)]

\* The candidate after a match with this email and this resolved name.
BackFill(cand, revealed_email, n) ==
    IF cand.Last = <<>> /\ n[2] # <<>>
    THEN [cand EXCEPT !.Email = Or(revealed_email, @),
                      !.First = n[1], !.Last = n[2], !.Name = n[3]]
    ELSE [cand EXCEPT !.Email = Or(revealed_email, @)]

\* if matches: m = matches[0] ...
EnrichFrom(cand, m) ==
    BackFill(cand, Or(Or(m.email, m.email_address), m.sanitized_email), parse_contact_name(m))

\* The body of the reveal branch once rev_res has come back: the candidate
\* after the response rev.
Enrich(cand, rev) ==
    IF rev.status_code = 200 /\ rev.matches # <<>> THEN EnrichFrom(cand, rev.matches[1]) ELSE cand

\* The loop state after the reveal request for top[n] got the response rev.
Revealed(st, n, cand, rev) ==
    IF rev.kind = "raise"
    THEN [st EXCEPT !.log = Append(@, [pos |-> n, cand |-> cand, rev |-> rev]),
                    !.raised = rev.exc]
    ELSE [st EXCEPT !.log = Append(@, [pos |-> n, cand |-> cand, rev |-> rev]),
                    !.final_results = Append(@, Enrich(cand, rev))]

\* The reveal loop from candidate n on.  revs are the responses the bulk_match
\* endpoint gives to the calls still to come, in order; st carries
\* final_results, the log of the calls made (position, candidate before the
\* call, response) and the exception raised, if any.
RECURSIVE RevealLoop(_, _, _, _, _)
RevealLoop(top, n, should_reveal, revs, st) ==
    IF n > Len(top) \/ st.raised # NoError THEN st
    ELSE IF ~NeedsReveal(top[n], should_reveal)
         THEN RevealLoop(top, n + 1, should_reveal, revs,
                         [st EXCEPT !.final_results = Append(@, top[n])])
    ELSE RevealLoop(top, n + 1, should_reveal, Tail(revs), Revealed(st, n, top[n], Head(revs)))

\* What a call leaves behind: the returned pair (contacts, error), and the
\* locals it had computed by then.
Outcome(contacts, error, candidates, top_candidates, log) ==
    [contacts |-> contacts, error |-> error, candidates |-> candidates,
     top_candidates |-> top_candidates, log |-> log]

\* The number of reveal calls the loop makes for top when none raises.
RevealsNeeded(top, should_reveal) ==
    Cardinality({n \in 1..Len(top) : NeedsReveal(top[n], should_reveal)})

\* candidates after the sort, for a 200 response.
SortedCandidates(res, roles) == SortByScore(BuildCandidates(res.people, roles))

\* top_candidates, when the skip leaves any.
TopCandidates(sorted, skip_n, max_contacts) ==
    Slice(IF skip_n > 0 THEN Slice(sorted, skip_n, Len(sorted)) ELSE sorted, 0, max_contacts)

\* The return after the reveal loop, or from the except clause when a
\* reveal request raised.
Returned(candidates, top_candidates, st) ==
    IF st.raised # NoError
    THEN Outcome(<<>>, "Error: " \o st.raised, candidates, top_candidates, st.log)
    ELSE Outcome(st.final_results, NoError, candidates, top_candidates, st.log)

\* The reveal loop over the window.
RevealWindow(a, candidates, top_candidates, revs) ==
    Returned(candidates, top_candidates,
             RevealLoop(top_candidates, 1, a.should_reveal, revs,
                        [final_results |-> <<>>, log |-> <<>>, raised |-> NoError]))

\* From "if not candidates" on: candidates is the sorted list.
SelectAndReveal(a, candidates, revs) ==
    IF candidates = <<>>
    THEN Outcome(<<>>, "No matching titles found", <<>>, <<>>, <<>>)
    ELSE IF a.skip_n > 0 /\ a.skip_n >= Len(candidates)
    THEN Outcome(<<>>, "Skipped all available contacts", candidates, <<>>, <<>>)
    ELSE RevealWindow(a, candidates,
                      TopCandidates(candidates, a.skip_n, a.max_contacts), revs)

\* fetch_contacts, with res the outcome of the search request and revs those
\* of the reveal requests.
fetch_contacts(a, res, revs) ==
    IF res.kind = "raise"
    THEN Outcome(<<>>, "Error: " \o res.exc, <<>>, <<>>, <<>>)
    ELSE IF res.status_code # 200
    THEN Outcome(<<>>, "Search Error (" \o ToString(res.status_code) \o ")", <<>>, <<>>, <<>>)
    ELSE IF res.people = <<>>
    THEN Outcome(<<>>, "No contacts found", <<>>, <<>>, <<>>)
    ELSE SelectAndReveal(a, SortedCandidates(res, a.selected_roles_ordered), revs)

\* ------------------------------------------------- the two Apollo endpoints
Str_CEO == <<"C","E","O">>
Str_ceo == <<"c","e","o">>
Str_FounderCEO == <<"F","o","u","n","d","e","r"," ","&"," ","C","E","O">>

\* People a search may return: A has every field; B has only a display name
\* and no email; D has no title; E has a first name only and no email.
PersonA == [id |-> 1, first_name |-> <<"a">>, last_name |-> <<"b">>, name |-> <<"a"," ","b">>,
            label |-> None, title |-> Str_CEO, email |-> <<"a","@","x">>]
PersonB == [id |-> 2, first_name |-> None, last_name |-> None, name |-> <<"c"," ","d">>,
            label |-> None, title |-> Str_FounderCEO, email |-> None]
PersonD == [id |-> 3, first_name |-> <<"i">>, last_name |-> <<"j">>, name |-> None,
            label |-> None, title |-> None, email |-> <<"d","@","x">>]
PersonE == [id |-> 4, first_name |-> <<"e">>, last_name |-> None, name |-> None,
            label |-> None, title |-> Str_ceo, email |-> <<>>]

PersonPool == {PersonA, PersonB, PersonD, PersonE}

\* A request that raises (connection error, bad JSON).
Raises == [kind |-> "raise", exc |-> "ConnectionError"]

\* Outcomes of the search request: it raises, it is refused, or it answers
\* 200 with up to MaxPeople different people in some order.
SearchResponses ==
    {Raises, [kind |-> "http", status_code |-> 429, people |-> <<>>]}
    \cup {[kind |-> "http", status_code |-> 200, people |-> ps] :
            ps \in DistinctSeq(PersonPool, MaxPeople)}

\* A match of the bulk_match endpoint.
Match(email, email_address, sanitized_email, first_name, last_name, name) ==
    [email |-> email, email_address |-> email_address, sanitized_email |-> sanitized_email,
     first_name |-> first_name, last_name |-> last_name, name |-> name, label |-> None]

Reveal(status_code, matches) ==
    [kind |-> "http", status_code |-> status_code, matches |-> matches]

\* Outcomes of one reveal request: it raises; it is refused; no match; a
\* match with no email and no name; a match with an email only; a match
\* with a sanitized email and a full name.
RevealFailures ==
    {Raises,
     Reveal(429, <<>>),
     Reveal(200, <<>>),
     Reveal(200, <<Match(None, None, None, None, None, None)>>)}

RevealSuccesses ==
    {Reveal(200, <<Match(None, <<"r","@","x">>, None, None, None, None)>>),
     Reveal(200, <<Match(None, None, <<"s","@","x">>, <<"g">>, None, <<"g"," ","h">>)>>)}

RevealResponses == RevealFailures \cup RevealSuccesses

\* Role lists selected in the multiselect, in priority order.
FetchRoleLists == {<<"CEO", "Founder">>, <<"Founder", "CEO">>, <<"Founder">>}

FetchArgs ==
    [selected_roles_ordered : FetchRoleLists, max_contacts : 1..MaxContacts,
     skip_n : 0..MaxSkip, should_reveal : BOOLEAN]

\* The responses the reveal requests of one call may get when the sorted
\* candidates are these: one for each candidate of the window whose email
\* is unknown.
RevealRunsFor(a, sorted) ==
    IF a.skip_n >= Len(sorted) THEN {<<>>}
    ELSE [1..RevealsNeeded(TopCandidates(sorted, a.skip_n, a.max_contacts), a.should_reveal)
            -> RevealResponses]

RevealRuns(a, res) ==
    IF res.kind = "http" /\ res.status_code = 200
    THEN RevealRunsFor(a, SortedCandidates(res, a.selected_roles_ordered))
    ELSE {<<>>}

\* ---------------------------------- specification: one call of fetch_contacts
InitFetch ==
    /\ pc = "fetch"
    /\ args \in FetchArgs
    /\ call = Idle
    /\ person = Idle /\ resolved = <<>>
    /\ selected_roles_ordered = <<>> /\ title = None /\ score = Unranked
    /\ ui = Idle /\ raw_lines = <<>> /\ i = 0 /\ processed_rows = <<>>

\* fetch_contacts(domain, ..., max_contacts, skip_n, should_reveal) against
\* some behaviour of the two endpoints.
Fetch ==
    /\ pc = "fetch"
    /\ \E res \in SearchResponses : \E revs \in RevealRuns(args, res) :
         call' = [res |-> res] @@ fetch_contacts(args, res, revs)
    /\ pc' = "fetched"
    /\ UNCHANGED <<person, resolved, selected_roles_ordered, title, score, args, ui,
                   raw_lines, i, processed_rows>>

NextFetch == Fetch

SpecFetch == InitFetch /\ [][NextFetch]_vars

\* ------------------------------- specification: rotating past the top matches
\* The same search response, asked for the top k, then the next k, then the
\* top 2k.
InitRotate ==
    /\ pc = "top"
    /\ args \in {a \in FetchArgs : a.skip_n = 0}
    /\ call \in {[res |-> res, runs |-> <<>>] : res \in SearchResponses}
    /\ person = Idle /\ resolved = <<>>
    /\ selected_roles_ordered = <<>> /\ title = None /\ score = Unranked
    /\ ui = Idle /\ raw_lines = <<>> /\ i = 0 /\ processed_rows = <<>>

\* One more call of fetch_contacts on the response, with the given window.
FetchWindow(skip_n, max_contacts) ==
    LET a == [args EXCEPT !.skip_n = skip_n, !.max_contacts = max_contacts]
    IN  \E revs \in RevealRuns(a, call.res) :
            call' = [call EXCEPT !.runs = Append(@, fetch_contacts(a, call.res, revs))]

FetchTop ==
    /\ pc = "top"
    /\ FetchWindow(0, args.max_contacts)
    /\ pc' = "next"
    /\ UNCHANGED <<person, resolved, selected_roles_ordered, title, score, args, ui,
                   raw_lines, i, processed_rows>>

FetchNext ==
    /\ pc = "next"
    /\ FetchWindow(args.max_contacts, args.max_contacts)
    /\ pc' = "both"
    /\ UNCHANGED <<person, resolved, selected_roles_ordered, title, score, args, ui,
                   raw_lines, i, processed_rows>>

FetchBoth ==
    /\ pc = "both"
    /\ FetchWindow(0, 2 * args.max_contacts)
    /\ pc' = "rotated"
    /\ UNCHANGED <<person, resolved, selected_roles_ordered, title, score, args, ui,
                   raw_lines, i, processed_rows>>

NextRotate == FetchTop \/ FetchNext \/ FetchBoth

SpecRotate == InitRotate /\ [][NextRotate]_vars

\* ------------------------------------------------------------------- main
\* re.sub(r'^' + prefix, '', text) for a literal prefix.
RemovePrefix(text, prefix) ==
    IF StartsWithAt(text, 1, prefix) THEN SubSeq(text, Len(prefix) + 1, Len(text)) ELSE text

\* re.sub(r'^https?://', '', text)
RemoveScheme(text) ==
    IF StartsWithAt(text, 1, <<"h","t","t","p","s",":","/","/">>)
    THEN RemovePrefix(text, <<"h","t","t","p","s",":","/","/">>)
    ELSE RemovePrefix(text, <<"h","t","t","p",":","/","/">>)

\* The longest prefix of text with none of the characters of stop.
RECURSIVE TakeUntil(_, _)
TakeUntil(text, stop) ==
    IF text = <<>> \/ Head(text) \in stop THEN <<>>
    ELSE <<Head(text)>> \o TakeUntil(Tail(text), stop)

clean_domain(input_str) ==
    IF ~Truthy(input_str) THEN <<>>
    ELSE LET text == RemovePrefix(RemoveScheme(lower(strip(input_str))), <<"w","w","w",".">>)
             host == TakeUntil(text, {"/", "?", "#"})
         IN  strip(host)

\* str.split(sep) for a one-character separator: empty pieces are kept.
RECURSIVE SplitOn(_, _, _)
SplitOn(s, sep, cur) ==
    IF s = <<>> THEN <<cur>>
    ELSE IF Head(s) = sep THEN <<cur>> \o SplitOn(Tail(s), sep, <<>>)
    ELSE SplitOn(Tail(s), sep, Append(cur, Head(s)))

\* [line.strip() for line in lines if line.strip()]
RECURSIVE StrippedNonBlank(_)
StrippedNonBlank(lines) ==
    IF lines = <<>> THEN <<>>
    ELSE IF strip(Head(lines)) # <<>>
         THEN <<strip(Head(lines))>> \o StrippedNonBlank(Tail(lines))
         ELSE StrippedNonBlank(Tail(lines))

\* Mutant of RowStatus: an error is reported like an empty result.
RowStatusHidesError(contacts, error) ==
    IF contacts = <<>> THEN "No Matches" ELSE "Success"

\* row['Status']
RowStatus(contacts, error) ==
    IF error # NoError THEN error
    ELSE IF contacts = <<>> THEN "No Matches"
    ELSE "Success"

\* f"{field}_{idx}"
Column(field, idx) == field \o "_" \o ToString(idx)

\* The columns of the contact at position idx (1-based).
ContactColumns(c, idx, name_format) ==
    (Column("Title", idx) :> c.Title) @@ (Column("Email", idx) :> c.Email) @@
    (IF name_format = "Separate Columns"
     THEN (Column("First Name", idx) :> c.First) @@ (Column("Last Name", idx) :> c.Last)
     ELSE (Column("Name", idx) :> c.Name))

RECURSIVE Flatten(_, _, _)
Flatten(contacts, idx, name_format) ==
    IF idx > Len(contacts) THEN <<>>
    ELSE ContactColumns(contacts[idx], idx, name_format) @@ Flatten(contacts, idx + 1, name_format)

\* The wide row of one domain.
BuildRow(clean_dom, contacts, error, name_format) ==
    ("Clean Domain" :> clean_dom) @@ ("Status" :> RowStatus(contacts, error)) @@
    (IF error = NoError /\ contacts # <<>> THEN Flatten(contacts, 1, name_format) ELSE <<>>)

Newline == "\n"

\* Lines typed into the text area: blank, bare, and with scheme, www., path
\* and surrounding blanks.
DomainLines ==
    { <<" ">>,
      <<"a",".","i","o">>,
      <<" ","H","T","T","P","S",":","/","/","W","W","W",".","B",".","i","o","/","x"," ">> }

RECURSIVE JoinLines(_)
JoinLines(lines) ==
    IF lines = <<>> THEN <<>>
    ELSE IF Len(lines) = 1 THEN lines[1]
    ELSE lines[1] \o <<Newline>> \o JoinLines(Tail(lines))

DomainInputs == {JoinLines(ls) : ls \in BoundedSeq(DomainLines, MaxLines)}

\* The widget values when the button is pressed.
UiStates ==
    [api_key_input : {<<>>, <<"k">>},
     selected_roles : {<<>>, <<"CEO", "Founder">>},
     num_contacts : {2},
     skip_n : {0, 1},
     use_reveal : BOOLEAN,
     name_format : {"Separate Columns", "Full Name"},
     domain_input : DomainInputs]

\* What the search endpoint may answer in the loop: each way fetch_contacts
\* can end is reachable from one of these.
LoopResponses ==
    {Raises, [kind |-> "http", status_code |-> 429, people |-> <<>>]}
    \cup {[kind |-> "http", status_code |-> 200, people |-> ps] :
            ps \in {<<>>, <<PersonD>>, <<PersonB>>, <<PersonA, PersonE>>}}

Init ==
    /\ pc = "form"
    /\ ui \in UiStates
    /\ raw_lines = <<>> /\ i = 0 /\ processed_rows = <<>>
    /\ args = Idle /\ call = Idle
    /\ person = Idle /\ resolved = <<>>
    /\ selected_roles_ordered = <<>> /\ title = None /\ score = Unranked

\* The "Run Search" button: the two checks, then raw_lines.
RunSearch ==
    /\ pc = "form"
    /\ IF ~Truthy(ui.api_key_input) \/ strip(ui.domain_input) = <<>>
       THEN pc' = "missing_data" /\ UNCHANGED raw_lines
       ELSE IF ui.selected_roles = <<>>
       THEN pc' = "no_roles" /\ UNCHANGED raw_lines
       ELSE /\ pc' = "loop"
            /\ raw_lines' = StrippedNonBlank(SplitOn(ui.domain_input, Newline, <<>>))
    /\ UNCHANGED <<person, resolved, selected_roles_ordered, title, score, args, call,
                   ui, i, processed_rows>>

\* One iteration of the loop over raw_lines: clean the line, fetch, build
\* the row, append it.
ProcessDomain ==
    /\ pc = "loop"
    /\ i < Len(raw_lines)
    /\ LET clean_dom == clean_domain(raw_lines[i + 1])
           a == [domain |-> clean_dom, selected_roles_ordered |-> ui.selected_roles,
                 max_contacts |-> ui.num_contacts, skip_n |-> ui.skip_n,
                 should_reveal |-> ui.use_reveal]
       IN  \E res \in LoopResponses : \E revs \in RevealRuns(a, res) :
             LET out == fetch_contacts(a, res, revs)
             IN  /\ args' = a
                 /\ call' = [res |-> res] @@ out
                 /\ processed_rows' = Append(processed_rows,
                        BuildRow(clean_dom, out.contacts, out.error, ui.name_format))
    /\ i' = i + 1
    /\ UNCHANGED <<pc, person, resolved, selected_roles_ordered, title, score, ui, raw_lines>>

\* The loop is over: "Done!".
Finish ==
    /\ pc = "loop"
    /\ i = Len(raw_lines)
    /\ pc' = "done"
    /\ UNCHANGED <<person, resolved, selected_roles_ordered, title, score, args, call,
                   ui, raw_lines, i, processed_rows>>

Next == RunSearch \/ ProcessDomain \/ Finish

Spec == Init /\ [][Next]_vars


\* ===================================================================== claims
\* The ids of a list of candidates, in order.
IdsOf(cs) == [k \in 1..Len(cs) |-> cs[k].id]

\* The position in the search response of the person with this id.
PositionOf(people, id) == CHOOSE k \in 1..Len(people) : people[k].id = id

\* The search answered 200.
Answered(res) == res.kind = "http" /\ res.status_code = 200

\* C1 (as claimed): resolving the resolver's own output (first_name = F,
\* last_name = L, name = Full) returns the same triple (F, L, Full).
C1_Idempotent == pc = "resolved" => resolved[2] = resolved[1]

\* An occurrence of p in t bounded on each side by a non-word character or
\* by an end of t.
BoundedOccurrence(p, t) ==
    \E k \in 1..(Len(t) + 1) :
        /\ StartsWithAt(t, k, p)
        /\ ~IsWordAt(t, k - 1)
        /\ ~IsWordAt(t, k + Len(p))

\* The keywords of the taxonomy of at most ShortKeywordLen characters.
ShortKeywords ==
    {kw \in UNION {{ROLE_DEFINITIONS[r][k] : k \in 1..Len(ROLE_DEFINITIONS[r])} : r \in RoleLabels} :
        Len(kw) <= ShortKeywordLen}

\* C4: for a non-empty title the score is the smallest index of a role of
\* the list one of whose keywords matches, the sentinel exactly when none
\* does; an empty or absent title scores the sentinel; the score is an
\* index of the list or the sentinel.
C4_PriorityShortCircuit ==
    pc = "scored" =>
        LET roles == selected_roles_ordered
            matching == IF Truthy(title)
                        THEN {n \in 1..Len(roles) : RoleMatches(roles[n], lower(title))}
                        ELSE {}
        IN  /\ score \in (0..(Len(roles) - 1)) \cup {Unranked}
            /\ ~Truthy(title) => score = Unranked
            /\ matching = {} <=> score = Unranked
            /\ matching # {} => /\ score + 1 \in matching
                                /\ \A n \in matching : score + 1 <= n

\* C4 witness: the first role matched although a later role matches too.
C4_Witness ==
    /\ pc = "scored"
    /\ Len(selected_roles_ordered) >= 2
    /\ score = 0
    /\ \E n \in 2..Len(selected_roles_ordered) :
           RoleMatches(selected_roles_ordered[n], lower(title))

\* C5 (as claimed): a keyword of at most four characters, dotted or not,
\* matches a title exactly when the lower-cased title holds an occurrence of
\* it bounded on each side by a non-word character or an end of the title.
C5_WholeWord ==
    (pc = "scored" /\ Truthy(title)) =>
        \A p \in ShortKeywords :
            KeywordMatches(p, lower(title)) <=> BoundedOccurrence(p, lower(title))

\* C2 (as claimed): whenever a reveal request of the call failed (it raised,
\* was refused, matched nothing or matched without an email), the call
\* returns every selected candidate with no error, that candidate still has
\* the email "N/A", and the candidates revealed before it have their
\* revealed emails.
C2_RevealFailureSilent ==
    pc = "fetched" =>
        \A k \in 1..Len(call.log) :
            call.log[k].rev \in RevealFailures =>
                /\ call.error = NoError
                /\ IdsOf(call.contacts) = IdsOf(call.top_candidates)
                /\ call.contacts[call.log[k].pos].Email = NA
                /\ \A j \in 1..(k - 1) :
                       call.log[j].rev \in RevealSuccesses =>
                           call.contacts[call.log[j].pos].Email # NA

\* The smaller of two numbers.
Min(x, y) == IF x < y THEN x ELSE y

\* C3 (as claimed, for a search that yields ranked candidates S): if
\* skip_n >= len(S) and skip_n > 0 the call returns no contact and the
\* reason "Skipped all available contacts"; otherwise it returns exactly
\* S[skip_n : skip_n + max_contacts], of length min(max_contacts, len(S) - skip_n).
C3_SkipLimit ==
    (pc = "fetched" /\ Answered(call.res)
        /\ SortedCandidates(call.res, args.selected_roles_ordered) # <<>>) =>
        LET S == SortedCandidates(call.res, args.selected_roles_ordered)
        IN  IF args.skip_n >= Len(S) /\ args.skip_n > 0
            THEN call.contacts = <<>> /\ call.error = "Skipped all available contacts"
            ELSE /\ IdsOf(call.contacts) =
                        IdsOf(SubSeq(S, args.skip_n + 1,
                                     Min(args.skip_n + args.max_contacts, Len(S))))
                 /\ Len(call.contacts) = Min(args.max_contacts, Len(S) - args.skip_n)

\* C6: every returned contact has a score below the sentinel, an index of
\* the role list; and a 200 response with people none of whom has a ranked
\* title gives no contact and the reason "No matching titles found".
C6_UnrankedExcluded ==
    pc = "fetched" =>
        /\ \A k \in 1..Len(call.contacts) :
               /\ call.contacts[k].Score < Unranked
               /\ call.contacts[k].Score \in 0..(Len(args.selected_roles_ordered) - 1)
        /\ ( /\ Answered(call.res)
             /\ call.res.people # <<>>
             /\ \A k \in 1..Len(call.res.people) :
                    get_contact_score(call.res.people[k].title,
                                      args.selected_roles_ordered) = Unranked )
           => (call.contacts = <<>> /\ call.error = "No matching titles found")

\* C6 witness: contacts were returned from a response that also held a
\* person with an unranked title.
C6_Witness ==
    /\ pc = "fetched"
    /\ call.contacts # <<>>
    /\ \E k \in 1..Len(call.res.people) :
           get_contact_score(call.res.people[k].title, args.selected_roles_ordered) = Unranked

\* C7: the returned list is non-decreasing in Score, and two returned
\* contacts of equal Score are in the order of the search response.
C7_StableOrder ==
    pc = "fetched" =>
        \A x, y \in 1..Len(call.contacts) :
            x < y =>
                /\ call.contacts[x].Score <= call.contacts[y].Score
                /\ call.contacts[x].Score = call.contacts[y].Score =>
                       PositionOf(call.res.people, call.contacts[x].id)
                           < PositionOf(call.res.people, call.contacts[y].id)

\* C7 witness: two contacts of equal score were returned from a response
\* that the sort had to reorder.
C7_Witness ==
    /\ pc = "fetched"
    /\ Len(call.contacts) >= 2
    /\ call.contacts[1].Score = call.contacts[2].Score
    /\ call.candidates # BuildCandidates(call.res.people, args.selected_roles_ordered)

\* The name fields of a candidate.
NameOf(c) == <<c.First, c.Last, c.Name>>

\* C10: a reveal request is made only with should_reveal set and for a
\* candidate of the window whose email is "N/A", so at most max_contacts
\* per call; in the returned list a known email is never replaced, the name
\* fields change only where Last was empty and is no longer, a candidate
\* without a reveal request is unchanged, and id, Title, Score and position
\* are those of the window.
C10_RevealGated ==
    pc = "fetched" =>
        /\ Len(call.log) <= args.max_contacts
        /\ \A k \in 1..Len(call.log) :
               /\ args.should_reveal
               /\ call.log[k].cand = call.top_candidates[call.log[k].pos]
               /\ call.log[k].cand.Email = NA
        /\ call.error = NoError =>
               /\ Len(call.contacts) = Len(call.top_candidates)
               /\ \A n \in 1..Len(call.contacts) :
                      LET before == call.top_candidates[n]
                          after  == call.contacts[n]
                      IN  /\ after.id = before.id
                          /\ after.Title = before.Title
                          /\ after.Score = before.Score
                          /\ before.Email # NA => after.Email = before.Email
                          /\ NameOf(after) # NameOf(before) =>
                                 (before.Last = <<>> /\ after.Last # <<>>)
                          /\ (\A k \in 1..Len(call.log) : call.log[k].pos # n) =>
                                 after = before

\* C10 witness: a call returned a contact whose email was revealed and whose
\* name was back-filled, next to a contact whose email was already known.
C10_Witness ==
    /\ pc = "fetched"
    /\ call.error = NoError
    /\ \E k \in 1..Len(call.log) :
           /\ call.log[k].rev \in RevealSuccesses
           /\ call.contacts[call.log[k].pos].Email # NA
           /\ NameOf(call.contacts[call.log[k].pos]) # NameOf(call.log[k].cand)
    /\ \E n \in 1..Len(call.contacts) : call.top_candidates[n].Email # NA

\* C9 (as claimed, for a response that yields ranked candidates S): the top
\* k and the next k share no candidate; with more than k ranked candidates
\* the two lists in a row are the list of the top 2k; with at most k the
\* second call reports "Skipped all available contacts".
C9_Rotation ==
    (pc = "rotated" /\ Answered(call.res)
        /\ SortedCandidates(call.res, args.selected_roles_ordered) # <<>>) =>
        LET S == SortedCandidates(call.res, args.selected_roles_ordered)
            k == args.max_contacts
            first == IdsOf(call.runs[1].contacts)
            second == IdsOf(call.runs[2].contacts)
            both == IdsOf(call.runs[3].contacts)
        IN  /\ \A x \in 1..Len(first), y \in 1..Len(second) : first[x] # second[y]
            /\ Len(S) > k => first \o second = both
            /\ Len(S) <= k => call.runs[2].error = "Skipped all available contacts"

\* The lines of the text area that are not blank, in order.
NotBlank(line) == strip(line) # <<>>

NonBlankLines == SelectSeq(SplitOn(ui.domain_input, Newline, <<>>), NotBlank)

\* The error strings fetch_contacts can return.
ErrorStrings ==
    {"Search Error (429)", "No contacts found", "No matching titles found",
     "Skipped all available contacts", "Error: ConnectionError"}

\* C8, in every state of the loop: one row for each line processed so far,
\* row k for the k-th non-blank line typed, with a Status that is 'Success',
\* 'No Matches' or an error string; the loop ends with a row for every
\* non-blank line.
C8_Rows ==
    pc \in {"loop", "done"} =>
        /\ Len(raw_lines) = Len(NonBlankLines)
        /\ Len(processed_rows) = i
        /\ i <= Len(raw_lines)
        /\ \A k \in 1..Len(processed_rows) :
               /\ processed_rows[k]["Clean Domain"] = clean_domain(NonBlankLines[k])
               /\ processed_rows[k]["Status"] \in {"Success", "No Matches"} \cup ErrorStrings
        /\ pc = "done" => i = Len(raw_lines)

\* C8, in every step of the loop: it either handles the next line, keeping
\* the rows of the earlier lines and adding one row whose Status is the
\* error of this line's call when it has one and 'Success' otherwise, or it
\* ends the loop, which it does only after the last line.
C8_Step ==
    pc = "loop" =>
        \/ /\ pc' = "loop"
           /\ i' = i + 1
           /\ Len(processed_rows') = Len(processed_rows) + 1
           /\ SubSeq(processed_rows', 1, Len(processed_rows)) = processed_rows
           /\ processed_rows'[i']["Status"] =
                  IF call'.error # NoError THEN call'.error ELSE "Success"
        \/ /\ pc' = "done"
           /\ i = Len(raw_lines)
           /\ UNCHANGED <<i, processed_rows>>

\* C8: per-organization failure isolation in the loop of main.
C8_FailureIsolation == [] C8_Rows /\ [][C8_Step]_vars

\* C8 witness: the loop is done; the first line's call failed with an
\* exception, the second line's call succeeded, and each has its row.
C8_Witness ==
    /\ pc = "done"
    /\ Len(processed_rows) >= 2
    /\ processed_rows[1]["Status"] = "Error: ConnectionError"
    /\ processed_rows[2]["Status"] = "Success"
    /\ processed_rows[1]["Clean Domain"] # processed_rows[2]["Clean Domain"]
====
